---------------------------- MODULE Spec2Model ----------------------------
(***************************************************************************)
(* The signalling server of webwormhole (src/cmd/ww/server.go): the slot   *)
(* table, freeslot, and the relay handler with its rendezvous goroutine    *)
(* and its read loop.                                                      *)
(*                                                                         *)
(* A slot key is a Go string; it is modelled as the sequence of its        *)
(* characters (decimal digits), so strconv.Itoa is a real conversion and   *)
(* "0" and "00" are different keys.  A channel is identified by the        *)
(* connection of the booker that made it.                                  *)
(*                                                                         *)
(* Each handler is two processes: the rendezvous goroutine, at position    *)
(*   "idle"      not yet accepted                                          *)
(*   "freeslot"  booker, inside freeslot() under the lock (SpecAlloc only) *)
(*   "writecode" booker, entry inserted, about to write the slot key       *)
(*   "select"    booker, at select { <-ctx.Done() / sc <- conn }           *)
(*   "timeout"   booker, entry deleted, about to write the 4001 close      *)
(*   "recv"      booker, at rconn = <-sc                                   *)
(*   "jselect"   joiner, at select { <-ctx.Done() / rconn = <-sc }         *)
(*   "send"      joiner, at sc <- conn                                     *)
(*   "done"      returned                                                  *)
(* and the read loop of the handler, at "idle", "read" (in ReadMessage) or *)
(* "done" (returned, cancel() has run).  A section under slots.Lock() is   *)
(* one step.  The goroutine writes rconn and the read loop reads it with   *)
(* no synchronisation: the read loop sees nil or the connection, whichever *)
(* the interleaving of the two steps gives.  A write or a read can fail at *)
(* any time (the peer left, the transport broke).                          *)
(***************************************************************************)
EXTENDS Integers, Sequences, FiniteSets, TLC

\* ------------------------------------------------------------------ bounds
NConns == 3       \* connections accepted by the server
MaxFrames == 2    \* frames the peers send, over all connections
MaxPayload == 1   \* payloads are 0..MaxPayload
MaxOff == 0       \* rand.Intn draws the MaxOff+1 smallest values new in each band

\* ------------------------------------------------------- program constants
CloseNoSuchSlot == 4000
CloseSlotTimedOut == 4001
CloseNoMoreSlots == 4002
Band1 == 10
Band2 == 256
Band3 == 65536
Band4 == 16777216
Attempts1 == 3
Attempts2 == 64
Attempts3 == 1024
Attempts4 == 1024

VARIABLES
  slots,     \* slots.m: key -> channel
  slotkey,   \* per connection: the handler's slotkey ("" = <<>>)
  g,         \* per connection: position of the rendezvous goroutine
  r,         \* per connection: position of the handler's read loop
  sc,        \* per connection: the goroutine's channel sc (0: none)
  rconn,     \* per connection: the handler's rconn (0: nil)
  ctxDone,   \* per connection: ctx.Done() is closed (deadline or cancel())
  closed,    \* per connection: the close frame written before conn.Close()
  in,        \* per connection: frames conn.ReadMessage has returned
  out,       \* per connection: frames written to it with conn.WriteMessage
  fs         \* the freeslot call in progress (specification SpecAlloc)

vars == <<slots, slotkey, g, r, sc, rconn, ctxDone, closed, in, out, fs>>

Conns == 1..NConns
Payloads == 0..MaxPayload
Frames == {"text", "binary"} \X Payloads

\* strconv.Itoa for n >= 0: the decimal digits of n, most significant first
RECURSIVE Itoa(_)
Itoa(n) == IF n < 10 THEN <<n>> ELSE Append(Itoa(n \div 10), n % 10)

\* the values the model lets rand.Intn(n) return
RandVals == UNION {b..(b + MaxOff) : b \in {0, Band1}}
Rand(n) == {x \in RandVals : x < n}

\* the keys a joining client names in the URL: codes, and "00" (no code)
JoinKeys == {Itoa(x) : x \in Rand(Band1)} \cup {<<0, 0>>}

\* the Go map operations on slots.m
EmptyMap == [k \in {} |-> 0]
Occupied(m, s) == s \in DOMAIN m
Put(m, k, v) == [x \in DOMAIN m \cup {k} |-> IF x = k THEN v ELSE m[x]]
Del(m, k) == [x \in DOMAIN m \ {k} |-> m[x]]

\* a channel made by a booking of a connection outside Conns
Foreign == NConns + 1

NoClose == [code |-> 0, reason |-> ""]
CloseMessage(code, reason) == [code |-> code, reason |-> reason]
Closed(c) == closed[c] # NoClose

\* no freeslot call in progress
FsIdle == [pc |-> "idle", band |-> 1, i |-> 0, tried |-> 0, hit |-> 0,
           slot |-> <<>>, ok |-> FALSE]

TotalRead == LET RECURSIVE Sum(_)
                 Sum(S) == IF S = {} THEN 0
                           ELSE LET c == CHOOSE x \in S : TRUE
                                IN Len(in[c]) + Sum(S \ {c})
             IN Sum(Conns)

Init ==
  /\ slots = EmptyMap
  /\ slotkey = [c \in Conns |-> <<>>]
  /\ g = [c \in Conns |-> "idle"]
  /\ r = [c \in Conns |-> "idle"]
  /\ sc = [c \in Conns |-> 0]
  /\ rconn = [c \in Conns |-> 0]
  /\ ctxDone = [c \in Conns |-> FALSE]
  /\ closed = [c \in Conns |-> NoClose]
  /\ in = [c \in Conns |-> <<>>]
  /\ out = [c \in Conns |-> <<>>]
  /\ fs = FsIdle

\* ---------------------------------------------------------------- freeslot
Bands == <<Band1, Band2, Band3, Band4>>
\* (mutant) the loop of the first band written with a bound of one attempt
AttemptsOnce == <<1, Attempts2, Attempts3, Attempts4>>

\* the attempt budget of each band's loop
Attempts == <<Attempts1, Attempts2, Attempts3, Attempts4>>

\* (mutant) the membership test left out: every sample counts as free
SampleFreeAny(m, x) == TRUE

\* the membership test of freeslot: is sample x a free slot of m
SampleFree(m, x) == ~Occupied(m, Itoa(x))

\* The possible returns <<slot, ok>> of freeslot() on table m, over every
\* sequence of samples.  One band's loop returns any free sample; it falls
\* through to the next band exactly when each of its attempts can draw an
\* occupied sample.
RECURSIVE FreeslotFrom(_, _)
FreeslotFrom(b, m) ==
  IF b > Len(Bands) THEN {<<<<>>, FALSE>>}
  ELSE LET draws == Rand(Bands[b])
           found == IF Attempts[b] > 0
                    THEN {<<Itoa(x), TRUE>> : x \in {y \in draws : SampleFree(m, y)}}
                    ELSE {}
           through == Attempts[b] = 0 \/ \E x \in draws : ~SampleFree(m, x)
       IN found \cup (IF through THEN FreeslotFrom(b + 1, m) ELSE {})

freeslot(m) == FreeslotFrom(1, m)

\* ------------------------------------------------------------------- relay
\* (mutant) the frame is written as a binary frame whatever its type
WriteMessageBinary(o, c, messageType, p) == [o EXCEPT ![c] = Append(@, <<"binary", p>>)]

\* conn.WriteMessage(messageType, p) on connection c
WriteMessage(o, c, messageType, p) == [o EXCEPT ![c] = Append(@, <<messageType, p>>)]

\* the deferred cancel() of the handler
Cancel(c) == [ctxDone EXCEPT ![c] = TRUE]

\* the upgrade of a request for /s/<key>: the handler starts its goroutine and
\* its read loop.  Connections are numbered in the order they are accepted.
Upgrade(c, key) ==
  /\ g[c] = "idle"
  /\ \A d \in Conns : d < c => g[d] # "idle"
  /\ fs.pc = "idle"
  /\ r' = [r EXCEPT ![c] = "read"]

\* lines 110-124, given what freeslot returned, still under the lock
BookWith(c, newslot, ok) ==
  IF ~ok
  THEN /\ closed' = [closed EXCEPT ![c] = CloseMessage(CloseNoMoreSlots, "cannot allocate slots")]
       /\ g' = [g EXCEPT ![c] = "done"]
       /\ UNCHANGED <<slots, slotkey, sc>>
  ELSE /\ slotkey' = [slotkey EXCEPT ![c] = newslot]
       /\ sc' = [sc EXCEPT ![c] = c]
       /\ slots' = Put(slots, newslot, c)
       /\ g' = [g EXCEPT ![c] = "writecode"]
       /\ UNCHANGED closed

\* a request for /s/ books a new slot: lock, freeslot, insert, unlock
Book(c) ==
  /\ Upgrade(c, <<>>)
  /\ \E res \in freeslot(slots) : BookWith(c, res[1], res[2])
  /\ UNCHANGED <<rconn, ctxDone, in, out, fs>>

\* the write of the slot key to the booker succeeds
WriteCode(c) ==
  /\ g[c] = "writecode"
  /\ out' = WriteMessage(out, c, "text", slotkey[c])
  /\ g' = [g EXCEPT ![c] = "select"]
  /\ UNCHANGED <<slots, slotkey, r, sc, rconn, ctxDone, closed, in, fs>>

\* the write of the slot key fails (err != nil): the goroutine returns
WriteCodeError(c) ==
  /\ g[c] = "writecode"
  /\ g' = [g EXCEPT ![c] = "done"]
  /\ UNCHANGED <<slots, slotkey, r, sc, rconn, ctxDone, closed, in, out, fs>>

\* (mutant) the timeout branch leaves the entry in the table
TimeoutDeleteSkipped(m, k) == m

\* delete(slots.m, slotkey) of the booker's timeout branch
TimeoutDelete(m, k) == Del(m, k)

\* the booker's select takes <-ctx.Done(): the delete under the lock
BookerTimeout(c) ==
  /\ g[c] = "select"
  /\ ctxDone[c]
  /\ slots' = TimeoutDelete(slots, slotkey[c])
  /\ g' = [g EXCEPT ![c] = "timeout"]
  /\ UNCHANGED <<slotkey, r, sc, rconn, ctxDone, closed, in, out, fs>>

\* ... then the close frame and conn.Close()
BookerTimeoutClose(c) ==
  /\ g[c] = "timeout"
  /\ closed' = [closed EXCEPT ![c] = CloseMessage(CloseSlotTimedOut, "timed out")]
  /\ g' = [g EXCEPT ![c] = "done"]
  /\ UNCHANGED <<slots, slotkey, r, sc, rconn, ctxDone, in, out, fs>>

\* (mutant) the channel made with a buffer of one: the booker's send completes
\* with no receiver and its receive takes its own connection back
BookerSendBuffered(b, j) ==
  /\ g[b] = "select"
  /\ rconn' = [rconn EXCEPT ![b] = b]
  /\ g' = [g EXCEPT ![b] = "done"]
  /\ UNCHANGED <<slots, slotkey, r, sc, ctxDone, closed, in, out, fs>>

\* sc <- conn of booker b meets rconn = <-sc of joiner j
BookerSend(b, j) ==
  /\ g[b] = "select"
  /\ g[j] = "jselect"
  /\ sc[j] = sc[b]
  /\ rconn' = [rconn EXCEPT ![j] = b]
  /\ g' = [g EXCEPT ![b] = "recv", ![j] = "send"]
  /\ UNCHANGED <<slots, slotkey, r, sc, ctxDone, closed, in, out, fs>>

\* (mutant) the joiner's send made cancellable: with its context done the
\* joiner returns without sending
JoinerSendCancellable(j, b) ==
  /\ g[j] = "send"
  /\ g[b] = "recv"
  /\ sc[j] = sc[b]
  /\ IF ctxDone[j]
     THEN /\ g' = [g EXCEPT ![j] = "done"]
          /\ UNCHANGED rconn
     ELSE /\ rconn' = [rconn EXCEPT ![b] = j]
          /\ g' = [g EXCEPT ![b] = "done", ![j] = "done"]
  /\ UNCHANGED <<slots, slotkey, r, sc, ctxDone, closed, in, out, fs>>

\* sc <- conn of joiner j meets rconn = <-sc of booker b; both goroutines return
JoinerSend(j, b) ==
  /\ g[j] = "send"
  /\ g[b] = "recv"
  /\ sc[j] = sc[b]
  /\ rconn' = [rconn EXCEPT ![b] = j]
  /\ g' = [g EXCEPT ![b] = "done", ![j] = "done"]
  /\ UNCHANGED <<slots, slotkey, r, sc, ctxDone, closed, in, out, fs>>

\* (mutant) the entry is left in the table
JoinDeleteSkipped(m, k) == m

\* delete(slots.m, slotkey) of the join branch
JoinDelete(m, k) == Del(m, k)

\* (mutant) the !ok branch without its return: the goroutine goes on to the select
JoinMissingNoReturn(c) ==
  /\ closed' = [closed EXCEPT ![c] = CloseMessage(CloseNoSuchSlot, "no such slot")]
  /\ g' = [g EXCEPT ![c] = "jselect"]
  /\ UNCHANGED <<slots, sc>>

\* the !ok branch of the join: close frame, conn.Close(), return
JoinMissing(c) ==
  /\ closed' = [closed EXCEPT ![c] = CloseMessage(CloseNoSuchSlot, "no such slot")]
  /\ g' = [g EXCEPT ![c] = "done"]
  /\ UNCHANGED <<slots, sc>>

\* a request for /s/<key> joins an existing slot: lock, lookup, delete, unlock
Join(c, key) ==
  /\ Upgrade(c, key)
  /\ slotkey' = [slotkey EXCEPT ![c] = key]
  /\ IF ~Occupied(slots, key)
     THEN JoinMissing(c)
     ELSE /\ sc' = [sc EXCEPT ![c] = slots[key]]
          /\ slots' = JoinDelete(slots, key)
          /\ g' = [g EXCEPT ![c] = "jselect"]
          /\ UNCHANGED closed
  /\ UNCHANGED <<rconn, ctxDone, in, out, fs>>

\* the joiner's select takes <-ctx.Done(): close frame, conn.Close(), and the
\* goroutine goes on to sc <- conn
JoinerTimeout(c) ==
  /\ g[c] = "jselect"
  /\ ctxDone[c]
  /\ closed' = [closed EXCEPT ![c] = CloseMessage(CloseSlotTimedOut, "timed out")]
  /\ g' = [g EXCEPT ![c] = "send"]
  /\ UNCHANGED <<slots, slotkey, r, sc, rconn, ctxDone, in, out, fs>>

\* conn.ReadMessage() returns a frame the peer sent, and the rest of the loop
\* body runs: the rconn == nil test, then rconn.WriteMessage(messageType, p).
\* The write fails when rconn was closed, and may fail on a transport error.
\* A read of rconn that races with the goroutine's write and still sees nil
\* has the effect of the failed write: the handler returns.
ReadMessage(c, f) ==
  /\ r[c] = "read"
  /\ ~Closed(c)
  /\ TotalRead < MaxFrames
  /\ in' = [in EXCEPT ![c] = Append(@, f)]
  /\ \/ /\ rconn[c] # 0
        /\ ~Closed(rconn[c])
        /\ out' = WriteMessage(out, rconn[c], f[1], f[2])
        /\ UNCHANGED <<r, ctxDone>>
     \/ /\ rconn[c] # 0
        /\ r' = [r EXCEPT ![c] = "done"]
        /\ ctxDone' = Cancel(c)
        /\ UNCHANGED out
     \/ /\ rconn[c] = 0
        /\ r' = [r EXCEPT ![c] = "done"]
        /\ ctxDone' = Cancel(c)
        /\ UNCHANGED out
  /\ UNCHANGED <<slots, slotkey, g, sc, rconn, closed, fs>>

\* conn.ReadMessage() returns an error because the peer disconnected or the
\* transport failed: the handler returns and the deferred cancel() runs
ReadError(c) ==
  /\ r[c] = "read"
  /\ ~Closed(c)
  /\ r' = [r EXCEPT ![c] = "done"]
  /\ ctxDone' = Cancel(c)
  /\ UNCHANGED <<slots, slotkey, g, sc, rconn, closed, in, out, fs>>

\* conn.ReadMessage() returns an error because the goroutine closed conn
ReadClosed(c) ==
  /\ r[c] = "read"
  /\ Closed(c)
  /\ r' = [r EXCEPT ![c] = "done"]
  /\ ctxDone' = Cancel(c)
  /\ UNCHANGED <<slots, slotkey, g, sc, rconn, closed, in, out, fs>>

\* the timer of context.WithTimeout(r.Context(), slotTimeout) fires
Deadline(c) ==
  /\ g[c] # "idle"
  /\ ~ctxDone[c]
  /\ ctxDone' = [ctxDone EXCEPT ![c] = TRUE]
  /\ UNCHANGED <<slots, slotkey, g, r, sc, rconn, closed, in, out, fs>>

\* the steps of the server's goroutines (rendezvous and read loop)
ServerStep(c) ==
  \/ WriteCode(c)
  \/ WriteCodeError(c)
  \/ BookerTimeout(c)
  \/ BookerTimeoutClose(c)
  \/ JoinerTimeout(c)
  \/ \E d \in Conns \ {c} : BookerSend(c, d) \/ JoinerSend(c, d)
  \/ ReadClosed(c)

Next ==
  \E c \in Conns :
    \/ Book(c)
    \/ \E key \in JoinKeys : Join(c, key)
    \/ ServerStep(c)
    \/ \E f \in Frames : ReadMessage(c, f)
    \/ ReadError(c)
    \/ Deadline(c)

Spec == Init /\ [][Next]_vars

\* The scheduler runs every goroutine that can take a step, a closed
\* connection fails its pending read, and the timer of a context fires.  What
\* the peers do (connect, send, disconnect) is not forced.
FairSpec ==
  /\ Spec
  /\ \A c \in Conns : WF_vars(ServerStep(c)) /\ WF_vars(Deadline(c))

\* ------------------------------------------------- freeslot, step by step
\* Specification SpecAlloc runs one call of freeslot() attempt by attempt, for
\* a booker that holds the lock, on a table that earlier bookings filled.
TotalAttempts == Attempts1 + Attempts2 + Attempts3 + Attempts4

InitAlloc ==
  /\ \E S \in SUBSET RandVals : slots = [k \in {Itoa(x) : x \in S} |-> Foreign]
  /\ slotkey = [c \in Conns |-> <<>>]
  /\ g = [c \in Conns |-> IF c = 1 THEN "freeslot" ELSE "idle"]
  /\ r = [c \in Conns |-> IF c = 1 THEN "read" ELSE "idle"]
  /\ sc = [c \in Conns |-> 0]
  /\ rconn = [c \in Conns |-> 0]
  /\ ctxDone = [c \in Conns |-> FALSE]
  /\ closed = [c \in Conns |-> NoClose]
  /\ in = [c \in Conns |-> <<>>]
  /\ out = [c \in Conns |-> <<>>]
  /\ fs = [FsIdle EXCEPT !.pc = "run"]

\* one iteration of the loop of band fs.band: s := strconv.Itoa(rand.Intn(n)),
\* then the membership test; after the last attempt of a band, the next band,
\* and after the last band, return "", false
fsAttempt(x) ==
  /\ fs.pc = "run"
  /\ x \in Rand(Bands[fs.band])
  /\ fs' = IF SampleFree(slots, x)
           THEN [fs EXCEPT !.pc = "ret", !.tried = @ + 1, !.slot = Itoa(x), !.ok = TRUE]
           ELSE IF fs.i + 1 < Attempts[fs.band]
           THEN [fs EXCEPT !.tried = @ + 1, !.hit = @ + 1, !.i = @ + 1]
           ELSE IF fs.band < Len(Bands)
           THEN [fs EXCEPT !.tried = @ + 1, !.hit = @ + 1, !.i = 0, !.band = @ + 1]
           ELSE [fs EXCEPT !.pc = "ret", !.tried = @ + 1, !.hit = @ + 1, !.i = @ + 1,
                           !.slot = <<>>, !.ok = FALSE]
  /\ UNCHANGED <<slots, slotkey, g, r, sc, rconn, ctxDone, closed, in, out>>

\* freeslot returns to the booking goroutine
fsReturn(c) ==
  /\ fs.pc = "ret"
  /\ g[c] = "freeslot"
  /\ BookWith(c, fs.slot, fs.ok)
  /\ fs' = [fs EXCEPT !.pc = "idle"]
  /\ UNCHANGED <<r, rconn, ctxDone, in, out>>

NextAlloc ==
  \/ \E x \in RandVals : fsAttempt(x)
  \/ \E c \in Conns : fsReturn(c)

SpecAlloc == InitAlloc /\ [][NextAlloc]_vars

\* what the call returns attempt by attempt is one of the returns freeslot(m)
\* gives for the table, the returns that Book draws from
FreeslotAgrees == fs.pc = "ret" => <<fs.slot, fs.ok>> \in freeslot(slots)

\* ------------------------------------------------------------------ claims
\* c booked a slot: it made the channel c and inserted it
IsBooker(c) == sc[c] = c
\* j found the entry of booker b present and removed it
Took(j, b) == j # b /\ sc[j] = b
\* the entry of booker b is in the table
Reserved(b) == \E k \in DOMAIN slots : slots[k] = b
\* both transfers on the channel of booker b are done, with joiner j
Paired(b, j) == Took(j, b) /\ rconn[j] = b /\ rconn[b] = j

\* C1: a reservation is taken by at most one joiner, and once a joiner has
\* taken it (so before that joiner uses the channel or relays) the entry is
\* no longer in the table.
C1_OneJoinerPerReservation ==
  \A b \in Conns :
    /\ Cardinality({j \in Conns : Took(j, b)}) <= 1
    /\ (\E j \in Conns : Took(j, b)) => ~Reserved(b)

C1_Witness == \E b, j \in Conns : Paired(b, j) /\ out[b] # <<>>

\* C2: of two joiners naming the code of a booker, at most one takes the
\* booker's entry and only that one is paired with the booker; the other,
\* unless the code was booked again, was closed with 4000.
C2_JoinRace ==
  \A b, j1, j2 \in Conns :
    (IsBooker(b) /\ Took(j1, b) /\ j2 # j1 /\ j2 # b) =>
      /\ ~Took(j2, b)
      /\ rconn[b] \in {0, j1}
      /\ rconn[j2] # b
      /\ (/\ g[j2] # "idle"
          /\ slotkey[j2] = slotkey[b]
          /\ \A b2 \in Conns \ {b} : ~(IsBooker(b2) /\ slotkey[b2] = slotkey[b]))
         => closed[j2] = [code |-> 4000, reason |-> "no such slot"]

C2_Witness ==
  \E b, j1, j2 \in Conns :
    /\ Paired(b, j1)
    /\ j2 # j1 /\ slotkey[j2] = slotkey[b] /\ closed[j2].code = 4000

\* C3: a step never changes the channel of a key that stays in the table (no
\* insert overwrites an entry), a key is inserted only by the booking of the
\* connection whose channel it maps to, and every entry is the reservation
\* of a booker holding exactly that code.
C3_NoOverwrite ==
  /\ [](\A k \in DOMAIN slots : IsBooker(slots[k]) /\ slotkey[slots[k]] = k)
  /\ [][/\ \A k \in DOMAIN slots \cap DOMAIN slots' : slots'[k] = slots[k]
        /\ \A k \in DOMAIN slots' \ DOMAIN slots :
             g[slots'[k]] = "idle" /\ g'[slots'[k]] = "writecode"]_vars

C3_Witness ==
  \E b1, b2 \in Conns : b1 # b2 /\ Reserved(b1) /\ Reserved(b2)

\* this step is the request of j to join the slot key (the lookup under the lock)
JoinStep(j, key) ==
  g[j] = "idle" /\ g'[j] \in {"done", "jselect"} /\ key # <<>> /\ slotkey'[j] = key

\* the deadline of c fired while its handler was still serving c
Expired(c) == ctxDone[c] /\ r[c] = "read"

\* C4: once the deadline of a connection has fired while its handler waits to
\* be joined, waits for the booker, or is paired and pumping, the relay
\* eventually closes the connection, or at the least its pump exits (the
\* handler leaves its read loop).
C4_DeadlineDominates ==
  \A c \in Conns :
    (Expired(c) /\ (g[c] \in {"select", "jselect"} \/ rconn[c] # 0))
      ~> (Closed(c) \/ r[c] = "done")

\* C5: a booker is closed only by its timeout handling, with 4001; when that
\* has completed the table holds no entry of that booker (its code is absent
\* unless another booking has inserted it since); and a join naming its code
\* after that never takes the booker's channel and, the code being absent,
\* is closed with 4000.
C5_TimedOutBookerReleased ==
  /\ [](\A b \in Conns : (IsBooker(b) /\ Closed(b)) =>
          /\ closed[b] = [code |-> 4001, reason |-> "timed out"]
          /\ g[b] = "done"
          /\ ~Reserved(b))
  /\ [][\A b, j \in Conns :
          (IsBooker(b) /\ Closed(b) /\ JoinStep(j, slotkey[b])) =>
            /\ sc'[j] # b
            /\ ~Occupied(slots, slotkey[b]) => closed'[j].code = 4000]_vars

C5_Witness ==
  \E b, j \in Conns :
    /\ IsBooker(b) /\ closed[b].code = 4001 /\ ~Occupied(slots, slotkey[b])
    /\ \A x \in Conns : ~Took(x, b)
    /\ j > b /\ slotkey[j] = slotkey[b] /\ closed[j].code = 4000

\* C5 as stated: at the step that completes the timeout handling of a booker
\* its slot code is absent from the table and the booker is sent 4001.
C5_CodeAbsentAtCompletion ==
  [][\A b \in Conns : (g[b] = "timeout" /\ g'[b] = "done") =>
       closed'[b].code = 4001 /\ ~Occupied(slots', slotkey[b])]_vars

\* C6: every entry of the table is eventually removed.
C6_EntryEventuallyRemoved ==
  \A x \in RandVals : Occupied(slots, Itoa(x)) ~> ~Occupied(slots, Itoa(x))

\* the goroutine of booker b returned because the write of the code failed
WriteFailed(b) ==
  IsBooker(b) /\ g[b] = "done" /\ ~Closed(b) /\ rconn[b] = 0 /\ out[b] = <<>>

\* C7: after the goroutine of a booker whose code could not be written has
\* returned, the table holds no entry of that booking.
C7_WriteFailureDrops == \A b \in Conns : WriteFailed(b) => ~Reserved(b)

\* C8: a join naming a key that is not in the table is closed with 4000 and
\* "no such slot" in the step of its lookup, which leaves the table as it
\* was; its goroutine has returned, it holds no channel and no remote
\* connection, ever, and nothing is forwarded to it.
C8_NoSuchSlot ==
  /\ [](\A j \in Conns : closed[j].code = 4000 =>
          /\ closed[j].reason = "no such slot"
          /\ g[j] = "done" /\ sc[j] = 0 /\ rconn[j] = 0 /\ out[j] = <<>>
          /\ \A c \in Conns : rconn[c] # j)
  /\ [][\A j \in Conns : \A key \in JoinKeys :
          (JoinStep(j, key) /\ ~Occupied(slots, key)) =>
            closed'[j].code = 4000 /\ slots' = slots]_vars

C8_Witness ==
  \E j \in Conns :
    closed[j].code = 4000 /\ slotkey[j] = <<0, 0>> /\ Occupied(slots, <<0>>)

\* every code freeslot can draw is in the table
Saturated == \A x \in Rand(Band4) : Occupied(slots, Itoa(x))

\* C9: on a saturated table freeslot returns "", false, and the booking then
\* closes with 4002 "cannot allocate slots" and leaves the table as it was;
\* and a booking is closed with 4002 only after 3 + 64 + 1024 + 1024 samples
\* were drawn and every one of them was occupied.
C9_NoMoreSlots ==
  /\ []((Saturated /\ fs.pc = "ret") => ~fs.ok)
  /\ [](\A c \in Conns : closed[c].code = 4002 =>
          /\ closed[c].reason = "cannot allocate slots"
          /\ fs.tried = 3 + 64 + 1024 + 1024
          /\ fs.hit = fs.tried)
  /\ [][\A c \in Conns :
          (Saturated /\ g[c] = "freeslot" /\ g'[c] # "freeslot") =>
            closed'[c].code = 4002 /\ slots' = slots /\ g'[c] = "done"]_vars

C9_Witness ==
  \E c \in Conns : Saturated /\ closed[c].code = 4002 /\ DOMAIN slots # {}

\* the frames forwarded to connection d: what was written to it, less the
\* slot code that a booker is sent first
Forwarded(d) == IF IsBooker(d) /\ out[d] # <<>> THEN Tail(out[d]) ELSE out[d]

IsPrefix(s, t) == Len(s) <= Len(t) /\ SubSeq(t, 1, Len(s)) = s

\* C10: what a handler has forwarded to its remote connection is, frame for
\* frame (type and payload), the sequence of frames it read from its own
\* peer, in order and once each: all of them while the handler is still
\* reading, all but possibly the last (whose write failed) once it has
\* returned; and nothing is forwarded to a connection that is not the remote
\* of some handler.
C10_Fifo ==
  /\ \A c \in Conns : rconn[c] # 0 =>
        /\ IsPrefix(Forwarded(rconn[c]), in[c])
        /\ Len(in[c]) - Len(Forwarded(rconn[c])) <= 1
        /\ r[c] = "read" => Forwarded(rconn[c]) = in[c]
  /\ \A d \in Conns : (\A c \in Conns : rconn[c] # d) => Forwarded(d) = <<>>

C10_Witness ==
  \E c \in Conns :
    /\ rconn[c] # 0
    /\ Len(in[c]) = 2
    /\ in[c][1] # in[c][2]
    /\ in[c][1][1] = "text"
    /\ Forwarded(rconn[c]) = in[c]

\* C11: once the read loop of one handler of an established pair has
\* returned (a read or a write failed), the pump of the opposite direction
\* terminates too or, at the least, the opposite connection is closed.
C11_PairTornDown ==
  \A c, d \in Conns :
    ((Paired(c, d) \/ Paired(d, c)) /\ r[c] = "done")
      ~> (r[d] = "done" \/ Closed(d))

\* the peer of booker b has disconnected: the read loop of its handler
\* returned on a read error, no frame read and the connection not closed by
\* the server
Departed(b) == IsBooker(b) /\ r[b] = "done" /\ ~Closed(b) /\ in[b] = <<>>

\* C12: a join that names the code of a booker whose peer has already
\* disconnected never takes that booker's entry.
C12_DepartedBookerNotJoined ==
  [][\A b, j \in Conns :
       (Departed(b) /\ JoinStep(j, slotkey[b])) => sc'[j] # b]_vars

\* the peer of booker b sent a frame before pairing had completed: the read
\* loop read it while rconn was nil, and rconn is nil still
EarlyFrame(b) == IsBooker(b) /\ in[b] # <<>> /\ rconn[b] = 0

\* C13: a booker whose peer sent a frame before pairing had completed has
\* its read loop ended (the frame is not forwarded: the handler has no
\* remote connection) and is sent no close frame.
C13_EarlyFrameSilentDrop ==
  \A b \in Conns : EarlyFrame(b) => (r[b] = "done" /\ ~Closed(b))

\* joiner j was cancelled while it waited to receive the booker's connection:
\* it took an entry and was sent the close frame 4001
CancelledJoiner(j) == sc[j] # 0 /\ ~IsBooker(j) /\ closed[j].code = 4001

\* C14: a joiner cancelled while waiting to receive the booker's connection
\* has been sent 4001 "timed out" and its goroutine has returned: it is not
\* at a further channel operation.
C14_CancelledJoinerTerminates ==
  \A j \in Conns : CancelledJoiner(j) =>
    (closed[j].reason = "timed out" /\ g[j] = "done")

\* C15: a transfer on a channel is a step that sets the rconn of one of its
\* users.  On the channel of booker b the first transfer hands b's connection
\* to the joiner that took b's entry and the second hands that joiner's
\* connection to b; each user receives once, so there are at most two; the
\* booker receives only after its own send completed, a joiner's send
\* completes only after it has received, and every value received is the
\* connection of the other user of the same channel.
C15_TwoTransfersInOrder ==
  /\ [](\A b \in Conns : IsBooker(b) =>
          /\ Cardinality({c \in Conns : sc[c] = b /\ rconn[c] # 0}) <= 2
          /\ \A c \in Conns : (sc[c] = b /\ rconn[c] # 0) =>
               (rconn[c] # c /\ sc[rconn[c]] = b)
          /\ rconn[b] # 0 => (Took(rconn[b], b) /\ rconn[rconn[b]] = b)
          /\ g[b] = "recv" => \E j \in Conns : Took(j, b) /\ rconn[j] = b)
  /\ [][\A c \in Conns : rconn'[c] # rconn[c] =>
          /\ rconn[c] = 0
          /\ sc[c] # 0
          /\ IF IsBooker(c)
             THEN /\ g[c] = "recv" /\ g'[c] = "done"
                  /\ g[rconn'[c]] = "send" /\ rconn[rconn'[c]] = c
             ELSE /\ g[c] = "jselect" /\ rconn'[c] = sc[c]
                  /\ g[sc[c]] = "select" /\ g'[sc[c]] = "recv"]_vars
  /\ [][\A j \in Conns : (g[j] = "send" /\ g'[j] # "send") =>
          (rconn[j] # 0 /\ rconn'[rconn[j]] = j)]_vars

C15_Witness ==
  \E b, j \in Conns :
    Paired(b, j) /\ g[b] = "done" /\ g[j] = "done" /\ r[b] = "read" /\ r[j] = "read"

\* C16: the delete of a booker's timeout branch removes no entry of another
\* booker, so a booker that is still waiting to be joined and whose entry no
\* joiner took has its code in the table, mapped to its own channel.
C16_TimeoutReleasesOwnOnly ==
  /\ [](\A b \in Conns :
          (IsBooker(b) /\ g[b] \in {"writecode", "select"}
             /\ \A j \in Conns : ~Took(j, b))
            => (Occupied(slots, slotkey[b]) /\ slots[slotkey[b]] = b))
  /\ [][\A b \in Conns : (g[b] = "select" /\ g'[b] = "timeout") =>
          \A k \in DOMAIN slots \ DOMAIN slots' : slots[k] = b]_vars

\* C17: a frame has been forwarded to a connection only if both transfers on
\* the channel have completed: the handler of that connection holds the
\* connection the frame came from, and that handler holds it.
C17_NoForwardBeforePaired ==
  \A d \in Conns : Forwarded(d) # <<>> =>
    (rconn[d] # 0 /\ rconn[rconn[d]] = d)

\* the integer a string of decimal digits denotes
RECURSIVE Atoi(_)
Atoi(s) == IF s = <<>> THEN 0
           ELSE 10 * Atoi(SubSeq(s, 1, Len(s) - 1)) + s[Len(s)]

\* s is the decimal string of an integer in 0..2^24-1
ValidCode(s) ==
  /\ s # <<>>
  /\ \A i \in 1..Len(s) : s[i] \in 0..9
  /\ Atoi(s) < 16777216
  /\ Itoa(Atoi(s)) = s

\* some single-digit code is in the table
DigitOccupied == \E x \in 0..9 : Occupied(slots, Itoa(x))

\* C18: the code freeslot returns is the decimal string of an integer in
\* 0..2^24-1; it is 10 or more only after the 3 samples of band 1 were drawn
\* and all hit occupied codes, so with a single-digit code in the table (on
\* an empty table the code has one digit); every sample before the returned
\* one was a collision; and the booking that follows holds that code.
C18_EscalateOnCollision ==
  /\ []((fs.pc = "ret" /\ fs.ok) =>
          /\ ValidCode(fs.slot)
          /\ fs.hit = fs.tried - 1
          /\ Atoi(fs.slot) >= 10 => (fs.band > 1 /\ fs.hit >= 3 /\ DigitOccupied)
          /\ slots = EmptyMap => Len(fs.slot) = 1)
  /\ [](fs.band > 1 => (fs.hit >= 3 /\ DigitOccupied))
  /\ [](\A k \in DOMAIN slots : ValidCode(k))
  /\ [][\A c \in Conns : (g[c] = "freeslot" /\ g'[c] = "writecode") =>
          /\ slotkey'[c] = fs.slot
          /\ Atoi(slotkey'[c]) >= 10 => (fs.hit >= 3 /\ DigitOccupied)]_vars

C18_Witness ==
  \E c \in Conns :
    /\ g[c] = "writecode"
    /\ Atoi(slotkey[c]) >= 10
    /\ fs.tried = 4
    /\ slots[slotkey[c]] = c

\* C19: the remote connection a joiner holds is the connection of the booker
\* whose entry it took; the remote a booker holds is the connection of the
\* joiner that took the booker's own entry, and that joiner holds the
\* booker's connection; only users of a channel hold a remote, and no
\* connection is the remote of two handlers.
C19_PairingMutual ==
  /\ \A c \in Conns : rconn[c] # 0 =>
       /\ rconn[c] # c
       /\ sc[c] # 0
       /\ sc[rconn[c]] = sc[c]
       /\ IF IsBooker(c)
          THEN Took(rconn[c], c) /\ rconn[rconn[c]] = c
          ELSE rconn[c] = sc[c] /\ rconn[sc[c]] \in {0, c}
  /\ \A c, d \in Conns : (c # d /\ rconn[c] # 0) => rconn[c] # rconn[d]

C19_Witness ==
  \E b, j, b2 \in Conns :
    /\ Paired(b, j)
    /\ b2 \notin {b, j} /\ IsBooker(b2) /\ slotkey[b2] = slotkey[b]
    /\ g[b2] = "select" /\ rconn[b2] = 0

\* C20: a booker whose send on its channel has completed and that waits at
\* the receive that follows eventually receives the joiner's connection and
\* returns, whether or not the joiner was cancelled or disconnected after
\* it received the booker's connection.
C20_BookerReceives ==
  \A b \in Conns : (g[b] = "recv") ~> (g[b] = "done" /\ rconn[b] # 0)

C20_Witness ==
  \E b, j \in Conns :
    /\ Paired(b, j) /\ g[b] = "done"
    /\ r[j] = "done" /\ in[j] = <<>> /\ ~Closed(j)
    /\ r[b] = "read" /\ ~ctxDone[b]

=============================================================================
